---- MODULE Spec2Model ----
(***************************************************************************)
(* A model of python/multicamselfcal/execute.py: the directory builder     *)
(* (create_from_cams, create_calibration_directory, _write_cam_ids,        *)
(* _write_cfg), the reader of the camera order (read_calibration_names,    *)
(* get_camera_names_map) and the process runner (MultiCamSelfCal.execute   *)
(* with ThreadedCommand).                                                  *)
(*                                                                         *)
(* Strings that the code indexes (camera ids) are sequences of characters. *)
(* Floating point values are records [k, v]: k = "nan", k = "inf" with the *)
(* sign in v, or k = "fin" with v the value counted in halves (v = 2 is    *)
(* 1.0, v = 1 is 0.5, v = 10 is 5.0).                                      *)
(*                                                                         *)
(* SpecBuild is one directory builder call on a fresh directory, followed  *)
(* by get_camera_names_map; SpecExec is a sequence of execute calls, each  *)
(* begun after the thread of the one before has ended, on a directory that *)
(* holds any of the five input files.  subprocess.Popen is taken to start  *)
(* the process, and the conversion of a yaml file to succeed.  Camera ids  *)
(* are non-empty and stay distinct when a leading separator is stripped.   *)
(***************************************************************************)
EXTENDS Integers, Sequences, FiniteSets, TLC

VARIABLES
    files,    \* names of the files that exist in out_dirname
    dir,      \* contents of the files the directory builder writes
    call,     \* the directory builder call: its arguments and its outcome
    names,    \* the outcome of get_camera_names_map
    ex,       \* the execute call in progress and its ThreadedCommand
    ncalls    \* number of execute calls made so far

vars == <<files, dir, call, names, ex, ncalls>>

----------------------------------------------------------------------------
(* Bounds of the model *)

\* number of cameras the caller may know
NumCams == 3
\* largest num_cameras_fill the caller passes
MaxFill == 4
\* number of execute calls on one calibrator
MaxCalls == 2

----------------------------------------------------------------------------
(* Values *)

NaN == [k |-> "nan", v |-> 0]
PosInf == [k |-> "inf", v |-> 1]
NegInf == [k |-> "inf", v |-> -1]
Fin(n) == [k |-> "fin", v |-> n]
Zero == Fin(0)
One == Fin(2)
\* the largest finite double, which numpy substitutes for an infinity
FloatMax == Fin(1000000)

Range(s) == {s[i] : i \in 1..Len(s)}

Perms(S) == {s \in [1..Cardinality(S) -> S] : \A i, j \in 1..Cardinality(S) : s[i] = s[j] => i = j}

\* camera ids; the second and the fourth carry a leading path separator
CamNames == << <<"a">>, <<"/", "b">>, <<"c">>, <<"/", "d">>, <<"e">> >>
Cams == {CamNames[i] : i \in 1..NumCams}
CamIndex(cam) == CHOOSE i \in 1..Len(CamNames) : CamNames[i] = cam

\* every ordering of every subset of the cameras
Orders == UNION {Perms(S) : S \in SUBSET Cams}

\* np.nan_to_num: NaN becomes 0.0, an infinity the largest finite value of its sign
nan_to_num(x) ==
    IF x.k = "nan" THEN Zero
    ELSE IF x.k = "inf" THEN Fin(x.v * FloatMax.v)
    ELSE x

\* ndarray.clip(max=1) on a finite value
clip_max1(x) == IF x.v > One.v THEN One ELSE x

\* np.count_nonzero(np.nan_to_num(np.array(points)))
count_nonzero(points) ==
    Cardinality({ij \in {<<i, j>> : i \in 1..Len(points), j \in 1..3} :
                    /\ ij[2] <= Len(points[ij[1]])
                    /\ nan_to_num(points[ij[1]][ij[2]]).v # 0})

\* points.shape[1]
ncols(points) == Len(points[1])

\* np.hstack((points, np.ones((npts,1)))).T : the rows x, y and 1
homogeneous(points) ==
    << [i \in 1..Len(points) |-> points[i][1]],
       [i \in 1..Len(points) |-> points[i][2]],
       [i \in 1..Len(points) |-> One] >>

\* found = np.nan_to_num(points[0,:]).clip(max=1)
found(points) == [i \in 1..Len(points) |-> clip_max1(nan_to_num(points[i][1]))]

----------------------------------------------------------------------------
(* Inputs of the directory builder *)

\* self.basename, the constructor's default
Basename == "cam"
\* self.use_nth_frame, the constructor's default
UseNthFrame == 1

\* observation arrays, one row per point
NoPoints == << <<NaN, NaN>>, <<Zero, Zero>>, <<NaN, Zero>> >>
Example == << <<Fin(10), Fin(4)>>, <<NaN, NaN>>, <<Zero, Zero>> >>
Infinite == << <<PosInf, PosInf>>, <<NegInf, NegInf>>, <<NaN, NaN>> >>
Subpixel == << <<Fin(1), Fin(6)>>, <<Fin(-6), Fin(8)>>, <<Fin(3), Fin(2)>> >>
LeftEdge == << <<Zero, Fin(14)>>, <<Zero, Zero>>, <<NaN, NaN>> >>
ThreeCols == << <<Fin(2), Fin(4), Fin(6)>>, <<Fin(8), Fin(10), Fin(12)>>, <<NaN, NaN, NaN>> >>

PointArrays == {NoPoints, Example, Infinite, Subpixel, LeftEdge, ThreeCols}

\* a calibration source: the path of camera number stem, its extension, and
\* whether it is an existing file
Url(cam, ext, isfile) == [stem |-> CamIndex(cam), ext |-> ext, isfile |-> isfile]
SourceKinds == {<<"yaml", TRUE>>, <<"rad", TRUE>>, <<"txt", TRUE>>, <<"txt", FALSE>>}

\* cam_resolutions: each camera its own width and height
ResolutionOf(cam) == <<320 * CamIndex(cam), 240 * CamIndex(cam)>>

FillRange == (0 - 2)..MaxFill

INPUT == <<"camera_order.txt", "IdMat.dat", "points.dat", "Res.dat", "multicamselfcal.cfg">>

EmptyDir == [order |-> <<>>, res |-> <<>>, idmat |-> <<>>, points |-> <<>>,
             rads |-> {}, cfg |-> <<>>]

----------------------------------------------------------------------------
(* The directory builder *)

\* camid[1:] if camid[0] == "/"
strip(camid) == IF camid[1] = "/" THEN Tail(camid) ELSE camid

\* a faulty variant: an id with a leading separator is left out
write_cam_ids_skip(cam_ids) ==
    LET plain == SelectSeq(cam_ids, LAMBDA camid : camid[1] # "/")
    IN [i \in 1..Len(plain) |-> plain[i]]
\* _write_cam_ids: one line per camera id, a leading separator stripped
write_cam_ids(cam_ids) == [i \in 1..Len(cam_ids) |-> strip(cam_ids[i])]

\* a faulty variant: the fill count is written as given
write_cfg_noclamp(cam_ids, radial_distortion, square_pixels, num_cameras_fill) ==
    [basename |-> Basename,
     num_cameras |-> Len(cam_ids),
     num_cameras_fill |-> num_cameras_fill,
     undo_radial |-> radial_distortion,
     square_pixels |-> square_pixels,
     use_nth_frame |-> UseNthFrame]
\* _write_cfg: the values rendered into the template
write_cfg(cam_ids, radial_distortion, square_pixels, num_cameras_fill) ==
    LET fill == IF num_cameras_fill < 0 \/ num_cameras_fill > Len(cam_ids)
                THEN Len(cam_ids) ELSE num_cameras_fill
    IN [basename |-> Basename,
        num_cameras |-> Len(cam_ids),
        num_cameras_fill |-> fill,
        undo_radial |-> radial_distortion,
        square_pixels |-> square_pixels,
        use_nth_frame |-> UseNthFrame]

\* list.remove: drops the first occurrence of x
RECURSIVE list_remove(_, _)
list_remove(s, x) ==
    IF s = <<>> THEN <<>>
    ELSE IF Head(s) = x THEN Tail(s)
    ELSE <<Head(s)>> \o list_remove(Tail(s), x)

\* map(cam_ids.remove, cams_to_remove)
RECURSIVE remove_all(_, _)
remove_all(cam_ids, cams_to_remove) ==
    IF cams_to_remove = <<>> THEN cam_ids
    ELSE remove_all(list_remove(cam_ids, Head(cams_to_remove)), Tail(cams_to_remove))

\* a faulty variant: an infinite value counts as no observation
no_points_nonfinite(cam_ids, cam_points) ==
    SelectSeq(cam_ids, LAMBDA cam :
        \A i \in 1..Len(cam_points[cam]) : \A j \in 1..Len(cam_points[cam][i]) :
            cam_points[cam][i][j].k # "fin" \/ cam_points[cam][i][j].v = 0)
\* the cameras create_from_cams collects in cams_to_remove
no_points(cam_ids, cam_points) ==
    SelectSeq(cam_ids, LAMBDA cam : count_nonzero(cam_points[cam]) = 0)

\* a faulty variant: the camera's own number, whatever was dropped before it
rad_index_unshifted(i, cam) == CamIndex(cam)
\* the index in the name of the radial file of the i-th camera of the loop
rad_index(i, cam) == i

\* a faulty variant: whatever is not yaml is copied
rad_how_copy_any(url) == IF url.ext = "yaml" THEN "converted" ELSE "copied"
\* how the radial file of a calibration source is made, by its extension
rad_how(url) ==
    IF url.ext = "yaml" THEN "converted"
    ELSE IF url.ext = "rad" THEN "copied"
    ELSE "unsupported"

\* the per-camera loop of create_from_cams from its i-th camera on; d holds
\* the files as written so far and the outcome
RECURSIVE cam_loop(_, _, _, _, _, _)
cam_loop(i, cam_ids, cam_resolutions, cam_points, cam_calibrations, d) ==
    IF i > Len(cam_ids) THEN d
    ELSE
      LET cam == cam_ids[i]
          points == cam_points[cam]
      IN IF ncols(points) # 2 THEN [d EXCEPT !.result = "AssertionError:shape"]
         ELSE
           LET d1 == [d EXCEPT !.res = Append(@, cam_resolutions[cam]),
                               !.idmat = Append(@, found(points)),
                               !.points = @ \o homogeneous(points)]
           IN IF cam \in DOMAIN cam_calibrations
              THEN LET url == cam_calibrations[cam]
                       dest == [base |-> Basename, idx |-> rad_index(i, cam)]
                   IN IF ~url.isfile THEN [d1 EXCEPT !.result = "AssertionError:isfile"]
                      ELSE IF rad_how(url) # "unsupported"
                      THEN cam_loop(i + 1, cam_ids, cam_resolutions, cam_points, cam_calibrations,
                             [d1 EXCEPT !.rads = @ \cup {[name |-> dest, how |-> rad_how(url), src |-> url]}])
                      ELSE [d1 EXCEPT !.result = "Exception:format"]
              ELSE cam_loop(i + 1, cam_ids, cam_resolutions, cam_points, cam_calibrations, d1)

\* all([cam in cam_calibrations for cam in cam_ids])
all_calibrated(cam_ids, cam_calibrations) ==
    IF \A i \in 1..Len(cam_ids) : cam_ids[i] \in DOMAIN cam_calibrations THEN 1 ELSE 0

\* create_from_cams; keys is the order cam_points.keys() comes in
create_from_cams(cam_ids, keys, cam_resolutions, cam_points, cam_calibrations, num_cameras_fill) ==
    /\ LET ids0 == IF cam_ids = <<>> THEN keys ELSE cam_ids
           cams_to_remove == no_points(ids0, cam_points)
           ids == remove_all(ids0, cams_to_remove)
           d0 == [order |-> write_cam_ids(ids), res |-> <<>>, idmat |-> <<>>,
                  points |-> <<>>, rads |-> {}, cfg |-> <<>>, result |-> "ok"]
           d == cam_loop(1, ids, cam_resolutions, cam_points, cam_calibrations, d0)
           cfg == IF d.result = "ok"
                  THEN <<write_cfg(ids, all_calibrated(ids, cam_calibrations), 1, num_cameras_fill)>>
                  ELSE <<>>
       IN /\ dir' = [order |-> d.order, res |-> d.res, idmat |-> d.idmat,
                     points |-> d.points, rads |-> d.rads, cfg |-> cfg]
          /\ files' = files \cup {"camera_order.txt", "Res.dat", "IdMat.dat", "points.dat"}
                            \cup (IF d.result = "ok" THEN {"multicamselfcal.cfg"} ELSE {})
          /\ call' = [op |-> "create_from_cams",
                      cam_ids_arg |-> cam_ids,
                      supplied |-> ids0,
                      cam_resolutions |-> cam_resolutions,
                      cam_points |-> cam_points,
                      cam_calibrations |-> cam_calibrations,
                      num_cameras_fill |-> num_cameras_fill,
                      cam_ids |-> ids,
                      dropped |-> cams_to_remove,
                      result |-> d.result]
    /\ UNCHANGED <<names, ex, ncalls>>

\* the assertions create_calibration_directory opens with
shapes_ok(cam_ids, Res, has_calibrations, cam_calibrations) ==
    /\ Len(Res) = Len(cam_ids)
    /\ has_calibrations => Len(cam_ids) = Cardinality(DOMAIN cam_calibrations)

\* create_calibration_directory; has_calibrations is cam_calibrations != None
create_calibration_directory(cam_ids, IdMat, points, Res, has_calibrations, cam_calibrations, radial_distortion, square_pixels, num_cameras_fill) ==
    /\ LET ok == shapes_ok(cam_ids, Res, has_calibrations, cam_calibrations)
       IN /\ dir' = IF ok
                    THEN [order |-> write_cam_ids(cam_ids), res |-> Res, idmat |-> IdMat,
                          points |-> points, rads |-> {},
                          cfg |-> <<write_cfg(cam_ids, radial_distortion, square_pixels,
                                              num_cameras_fill)>>]
                    ELSE dir
          /\ files' = IF ok THEN files \cup Range(INPUT) ELSE files
          /\ call' = [op |-> "create_calibration_directory",
                      cam_ids |-> cam_ids,
                      IdMat |-> IdMat,
                      points |-> points,
                      Res |-> Res,
                      has_calibrations |-> has_calibrations,
                      cam_calibrations |-> cam_calibrations,
                      radial_distortion |-> radial_distortion,
                      square_pixels |-> square_pixels,
                      num_cameras_fill |-> num_cameras_fill,
                      result |-> IF ok THEN "ok" ELSE "AssertionError:shape"]
    /\ UNCHANGED <<names, ex, ncalls>>

----------------------------------------------------------------------------
(* The reader of the camera order *)

\* fd.read().split('\n') of a file of newline-terminated lines
split_lines(order) == order \o << <<>> >>

\* read_calibration_names
read_calibration_names(order) ==
    LET cam_ids == split_lines(order)
    IN IF cam_ids[Len(cam_ids)] = <<>> THEN SubSeq(cam_ids, 1, Len(cam_ids) - 1) ELSE cam_ids

\* get_camera_names_map with filetype "rad": a later line of the same name
\* overwrites an earlier one
names_map(order) ==
    LET ids == read_calibration_names(order)
    IN [name \in Range(ids) |->
          [base |-> "basename",
           idx |-> CHOOSE i \in 1..Len(ids) :
                     ids[i] = name /\ \A j \in 1..Len(ids) : ids[j] = name => j <= i]]

get_camera_names_map ==
    /\ call.op # "none"
    /\ names.status = "none"
    /\ names' = IF "camera_order.txt" \in files
                THEN [status |-> "ok", map |-> names_map(dir.order)]
                ELSE [status |-> "IOError", map |-> <<>>]
    /\ UNCHANGED <<files, dir, call, ex, ncalls>>

----------------------------------------------------------------------------
(* The directory builder's specification: one build of a fresh directory, *)
(* then the camera names read back from it                                *)

\* no directory builder call yet; the caller holds its list of camera ids
NoCall(cam_ids) == [op |-> "none", cam_ids |-> cam_ids]
NoNames == [status |-> "none", map |-> <<>>]
NoExecute == [pc |-> "idle"]

\* the dictionaries of a call are keyed by the cameras it is about
Resolutions(S) == [cam \in S |-> ResolutionOf(cam)]
NoCalibrations == [cam \in {} |-> Url(cam, "yaml", TRUE)]
SourcesOf(kinds) == [cam \in DOMAIN kinds |-> Url(cam, kinds[cam][1], kinds[cam][2])]

\* calibration sources for some of the cameras: of every kind for a camera
\* with observations, of two kinds for a camera without
Calibrations(cam_points) ==
    UNION {{kinds \in [T -> SourceKinds] :
               \A cam \in T : cam_points[cam] = NoPoints =>
                                 kinds[cam] \in {<<"yaml", TRUE>>, <<"txt", FALSE>>}} :
           T \in SUBSET DOMAIN cam_points}

\* observations of every kind for the caller's cameras, no calibration source
BuildFromObservations ==
    /\ call.op = "none"
    /\ call.cam_ids # <<>>
    /\ \E cam_points \in [Range(call.cam_ids) -> PointArrays] :
          create_from_cams(call.cam_ids, call.cam_ids, Resolutions(Range(call.cam_ids)),
                           cam_points, NoCalibrations, 0 - 1)

\* no camera ids given: the cameras are the keys of cam_points, in any order
BuildFromKeys ==
    /\ call.op = "none"
    /\ call.cam_ids = <<>>
    /\ \E S \in SUBSET Cams : \E keys \in Perms(S) :
       \E cam_points \in [S -> {NoPoints, Example, Subpixel}] :
          create_from_cams(call.cam_ids, keys, Resolutions(S), cam_points, NoCalibrations, 0 - 1)

\* calibration sources of every kind
BuildWithCalibrations ==
    /\ call.op = "none"
    /\ call.cam_ids # <<>>
    /\ \E cam_points \in [Range(call.cam_ids) -> {NoPoints, Example}] :
       \E kinds \in Calibrations(cam_points) :
          create_from_cams(call.cam_ids, call.cam_ids, Resolutions(Range(call.cam_ids)),
                           cam_points, SourcesOf(kinds), 0 - 1)

\* every fill count
BuildWithFill ==
    /\ call.op = "none"
    /\ call.cam_ids # <<>>
    /\ \E num_cameras_fill \in FillRange :
       \E cam_points \in [Range(call.cam_ids) -> {NoPoints, Example}] :
          create_from_cams(call.cam_ids, call.cam_ids, Resolutions(Range(call.cam_ids)),
                           cam_points, NoCalibrations, num_cameras_fill)

\* matrices the caller assembled: n rows each
ResMatrix(n) == [i \in 1..n |-> <<640, 480>>]
IdMatrix(n) == [i \in 1..n |-> <<1, 0, 1>>]
PointsMatrix(n) == [i \in 1..(3 * n) |-> <<Fin(10), Fin(4), Fin(6)>>]

\* n resolution rows, and for cam_calibrations either None or a dictionary
\* of m entries; the empty dictionary is also the default of the parameter
BuildFromMatrices ==
    /\ call.op = "none"
    /\ \E n \in 0..NumCams : \E has_calibrations \in BOOLEAN :
       \E m \in 0..NumCams : \E flag \in {0, 1} : \E num_cameras_fill \in FillRange :
          /\ ~has_calibrations => m = 0
          /\ create_calibration_directory(call.cam_ids, IdMatrix(n), PointsMatrix(n),
                ResMatrix(n), has_calibrations,
                [cam \in {CamNames[i] : i \in 1..m} |-> Url(cam, "rad", TRUE)],
                flag, 1 - flag, num_cameras_fill)

\* a calibrator over a fresh directory, and the camera ids its caller holds
InitBuild ==
    /\ files = {}
    /\ dir = EmptyDir
    /\ call \in {NoCall(cam_ids) : cam_ids \in Orders}
    /\ names = NoNames
    /\ ex = NoExecute
    /\ ncalls = 0

NextBuild ==
    \/ BuildFromObservations
    \/ BuildFromKeys
    \/ BuildWithCalibrations
    \/ BuildWithFill
    \/ BuildFromMatrices
    \/ get_camera_names_map

SpecBuild == InitBuild /\ [][NextBuild]_vars

----------------------------------------------------------------------------
(* The process runner: MultiCamSelfCal.execute and ThreadedCommand *)

ExitCodes == {0, 1, 255}

\* a faulty variant: without copying, a missing file goes unnoticed
RECURSIVE input_loop_nocheck(_, _, _)
input_loop_nocheck(i, copy_files, copied) ==
    IF i > Len(INPUT) THEN [copied |-> copied, error |-> "none"]
    ELSE IF copy_files
         THEN IF INPUT[i] \in files
              THEN input_loop_nocheck(i + 1, copy_files, copied \cup {INPUT[i]})
              ELSE [copied |-> copied, error |-> "IOError"]
         ELSE input_loop_nocheck(i + 1, copy_files, copied)
\* the loop of execute over INPUT from its i-th file on: copies or checks
\* the file, and stops at the first one that is missing
RECURSIVE input_loop(_, _, _)
input_loop(i, copy_files, copied) ==
    IF i > Len(INPUT) THEN [copied |-> copied, error |-> "none"]
    ELSE IF copy_files
         THEN IF INPUT[i] \in files
              THEN input_loop(i + 1, copy_files, copied \cup {INPUT[i]})
              ELSE [copied |-> copied, error |-> "IOError"]
         ELSE IF INPUT[i] \in files
              THEN input_loop(i + 1, copy_files, copied)
              ELSE [copied |-> copied, error |-> "ValueError"]

\* the result directory execute resolves
resolve_dest(dest) == IF dest = "" THEN "out_dirname/result" ELSE dest

\* the arguments set_finished_cb stores after the handle: cb(self, dest)
cbargs(dest) == <<dest>>

\* execute up to cmd.start(): the result directory, the capture files, the
\* input files, the command and its thread
execute(blocking, has_cb, dest, silent, copy_files) ==
    /\ ex.pc \in {"idle", "returned", "raised"}
    /\ ex.pc # "idle" => ex.thread \in {"none", "done"}
    /\ ncalls < MaxCalls
    /\ ncalls' = ncalls + 1
    /\ LET d == resolve_dest(dest)
           r == input_loop(1, copy_files, {})
       IN ex' = [pc |-> IF r.error = "none" THEN "started" ELSE "raised",
                 blocking |-> blocking,
                 has_cb |-> has_cb,
                 copy_files |-> copy_files,
                 dest |-> d,
                 captured |-> IF silent THEN {"STDOUT", "STDERR"} ELSE {},
                 copied |-> r.copied,
                 error |-> r.error,
                 retval |-> <<>>,
                 thread |-> IF r.error = "none" THEN "started" ELSE "none",
                 cbargs |-> IF r.error = "none" THEN cbargs(d) ELSE <<>>,
                 proc |-> "none",
                 exitcode |-> <<>>,
                 returncode |-> <<>>,
                 cb_calls |-> <<>>]
    /\ UNCHANGED <<files, dir, call, names>>

\* ThreadedCommand.run: subprocess.Popen starts the process
run_popen ==
    /\ ex.pc # "idle"
    /\ ex.thread = "started"
    /\ ex' = [ex EXCEPT !.thread = "communicate", !.proc = "running"]
    /\ UNCHANGED <<files, dir, call, names, ncalls>>

\* the external process exits with some code
process_exit ==
    /\ ex.pc # "idle"
    /\ ex.proc = "running"
    /\ \E code \in ExitCodes :
          ex' = [ex EXCEPT !.proc = "exited", !.exitcode = <<code>>]
    /\ UNCHANGED <<files, dir, call, names, ncalls>>

\* a faulty variant: run() goes on while the process is still running
run_communicate_nowait ==
    /\ ex.pc # "idle"
    /\ ex.thread = "communicate"
    /\ ex' = [ex EXCEPT !.thread = "collected"]
    /\ UNCHANGED <<files, dir, call, names, ncalls>>
\* ThreadedCommand.run: communicate() returns once the process has exited
run_communicate ==
    /\ ex.pc # "idle"
    /\ ex.thread = "communicate"
    /\ ex.proc = "exited"
    /\ ex' = [ex EXCEPT !.thread = "collected"]
    /\ UNCHANGED <<files, dir, call, names, ncalls>>

\* ThreadedCommand.run: self.returncode = self._cmd.returncode
run_returncode ==
    /\ ex.pc # "idle"
    /\ ex.thread = "collected"
    /\ ex' = [ex EXCEPT !.thread = "recorded", !.returncode = ex.exitcode]
    /\ UNCHANGED <<files, dir, call, names, ncalls>>

\* ThreadedCommand.run: if self._cb: self._cb(self, *self._cbargs)
run_callback ==
    /\ ex.pc # "idle"
    /\ ex.thread = "recorded"
    /\ ex' = [ex EXCEPT !.thread = "done",
                        !.cb_calls = IF ex.has_cb THEN Append(@, ex.cbargs) ELSE @]
    /\ UNCHANGED <<files, dir, call, names, ncalls>>

\* execute, not blocking: falls off the end after cmd.start()
execute_return ==
    /\ ex.pc = "started"
    /\ ~ex.blocking
    /\ ex' = [ex EXCEPT !.pc = "returned"]
    /\ UNCHANGED <<files, dir, call, names, ncalls>>

\* a faulty variant: returns dest without joining the thread
execute_join_nojoin ==
    /\ ex.pc = "started"
    /\ ex.blocking
    /\ ex' = [ex EXCEPT !.pc = "returned", !.retval = <<ex.dest>>]
    /\ UNCHANGED <<files, dir, call, names, ncalls>>
\* execute, blocking: cmd.join(); return dest
execute_join ==
    /\ ex.pc = "started"
    /\ ex.blocking
    /\ ex.thread = "done"
    /\ ex' = [ex EXCEPT !.pc = "returned", !.retval = <<ex.dest>>]
    /\ UNCHANGED <<files, dir, call, names, ncalls>>

Execute ==
    \E blocking \in BOOLEAN : \E has_cb \in BOOLEAN : \E dest \in {"", "elsewhere"} :
    \E silent \in BOOLEAN : \E copy_files \in BOOLEAN :
        execute(blocking, has_cb, dest, silent, copy_files)

\* the calibrator is made over a directory that holds any of the input files
InitExec ==
    /\ files \in SUBSET Range(INPUT)
    /\ dir = EmptyDir
    /\ call = NoCall(<<>>)
    /\ names = NoNames
    /\ ex = NoExecute
    /\ ncalls = 0

NextExec ==
    \/ Execute
    \/ run_popen
    \/ process_exit
    \/ run_communicate
    \/ run_returncode
    \/ run_callback
    \/ execute_return
    \/ execute_join

SpecExec == InitExec /\ [][NextExec]_vars

----------------------------------------------------------------------------
(* Properties of the process runner, under SpecExec *)

Launched == ex.pc # "idle" /\ ex.thread # "none"
AllInputsPresent == Range(INPUT) \subseteq files

\* C1: a registered completion callback is invoked at most once, only after
\* the process has exited and its exit code is on the handle, with the result
\* directory as its argument; once run() has ended it was invoked exactly
\* once, and without a registered callback nothing is invoked.
C1_CallbackOnceAfterExit ==
    ex.pc # "idle" =>
        /\ Len(ex.cb_calls) <= 1
        /\ Len(ex.cb_calls) = 1 =>
              /\ ex.has_cb
              /\ ex.proc = "exited"
              /\ ex.returncode # <<>>
              /\ ex.returncode = ex.exitcode
              /\ ex.cb_calls[1] = <<ex.dest>>
        /\ (ex.thread = "done" /\ ex.has_cb) => Len(ex.cb_calls) = 1
        /\ ~ex.has_cb => ex.cb_calls = <<>>

\* a non-blocking call has returned to its caller, and later its callback ran
C1_Witness ==
    /\ ex.pc = "returned"
    /\ ~ex.blocking
    /\ ex.has_cb
    /\ ex.thread = "done"
    /\ ex.cb_calls = << <<"out_dirname/result">> >>
    /\ ex.returncode = <<1>>

\* C2: a blocking execute returns only after the process has exited, it
\* returns the result directory whatever the exit code, which is recorded on
\* the handle, and it raises only before a process was started.
C2_BlockingReturnsAfterExit ==
    (ex.pc # "idle" /\ ex.blocking) =>
        /\ ex.pc = "returned" =>
              /\ ex.proc = "exited"
              /\ ex.thread = "done"
              /\ ex.retval = <<ex.dest>>
              /\ ex.returncode = ex.exitcode
              /\ ex.returncode # <<>>
        /\ ex.pc = "raised" => (ex.proc = "none" /\ ex.thread = "none")
        /\ ex.proc = "exited" => ex.pc \in {"started", "returned"}

\* a blocking call has returned the result directory of a process that
\* exited with a non-zero code
C2_Witness ==
    /\ ex.pc = "returned"
    /\ ex.blocking
    /\ ex.exitcode = <<255>>
    /\ ex.returncode = <<255>>
    /\ ex.retval = <<ex.dest>>

\* C7: with copy_files false, a missing input file makes execute raise the
\* missing-file error with no thread and no process started and no callback
\* invoked; a process is started only with all five files present.
C7_ValidationOnlyMissingFile ==
    (ex.pc # "idle" /\ ~ex.copy_files) =>
        /\ ~AllInputsPresent =>
              /\ ex.pc = "raised"
              /\ ex.error = "ValueError"
              /\ ex.thread = "none"
              /\ ex.proc = "none"
              /\ ex.cb_calls = <<>>
              /\ ex.copied = {}
        /\ Launched => AllInputsPresent
        /\ AllInputsPresent => ex.error = "none"

\* only the config file is missing, a callback is registered, and execute
\* has raised
C7_Witness ==
    /\ ex.pc = "raised"
    /\ ~ex.copy_files
    /\ ex.has_cb
    /\ ex.error = "ValueError"
    /\ files = Range(INPUT) \ {"multicamselfcal.cfg"}

----------------------------------------------------------------------------
(* Properties of the directory builder, under SpecBuild *)

IsNaNOrZero(x) == x.k = "nan" \/ (x.k = "fin" /\ x.v = 0)
IsNonFiniteOrZero(x) == x.k # "fin" \/ x.v = 0
IsFiniteNonZero(x) == x.k = "fin" /\ x.v # 0

AllOf(points, P(_)) ==
    \A i \in 1..Len(points) : \A j \in 1..Len(points[i]) : P(points[i][j])

FromCams == call.op = "create_from_cams"
FromMatrices == call.op = "create_calibration_directory"

\* the supplied cameras that have an observation other than NaN and zero
Remaining ==
    SelectSeq(call.supplied, LAMBDA cam : ~AllOf(call.cam_points[cam], IsNaNOrZero))

Written(cam) == strip(cam) \in Range(dir.order)

\* C3 as stated: a camera is left out of the written camera order exactly
\* when all its observation values are non-finite or zero, and the others
\* keep their relative order.
C3_AsStated ==
    FromCams =>
        /\ \A cam \in Range(call.supplied) :
              ~Written(cam) <=> AllOf(call.cam_points[cam], IsNonFiniteOrZero)
        /\ dir.order = [k \in 1..Len(Remaining) |-> strip(Remaining[k])]

\* C3 amended: a camera is left out of the written camera order exactly when
\* all its observation values are NaN or zero (an infinity counts as an
\* observation), the left out cameras are the ones reported as dropped, and
\* the others keep the relative order of the supplied camera ids.
C3_DroppedIffNaNOrZero ==
    FromCams =>
        /\ \A cam \in Range(call.supplied) :
              /\ ~Written(cam) <=> AllOf(call.cam_points[cam], IsNaNOrZero)
              /\ ~Written(cam) <=> cam \in Range(call.dropped)
        /\ dir.order = [k \in 1..Len(Remaining) |-> strip(Remaining[k])]
        /\ call.cam_ids = Remaining

\* the middle one of three cameras is dropped, and a camera whose
\* observations are all infinite or NaN is kept
C3_Witness ==
    /\ FromCams
    /\ Len(call.supplied) = 3
    /\ call.dropped = <<call.supplied[2]>>
    /\ Len(dir.order) = 2
    /\ call.cam_points[call.supplied[3]] = Infinite
    /\ CamIndex(call.supplied[1]) > CamIndex(call.supplied[3])

\* C4: every entry of a written visibility row is 1 where the point's x
\* coordinate is finite and non-zero and 0 where it is zero or non-finite.
C4_VisibilityIsZeroOrOne ==
    FromCams =>
        \A k \in 1..Len(dir.idmat) :
            LET points == call.cam_points[call.cam_ids[k]]
            IN /\ Len(dir.idmat[k]) = Len(points)
               /\ \A i \in 1..Len(points) :
                     dir.idmat[k][i] = IF IsFiniteNonZero(points[i][1]) THEN One ELSE Zero

\* calibrations are supplied: a dictionary that holds some
CalibrationsSupplied == call.has_calibrations /\ DOMAIN call.cam_calibrations # {}

\* C5: create_calibration_directory fails with the shape error exactly when
\* the resolution rows and the camera ids differ in number, or calibrations
\* are supplied and differ in number from the camera ids; without
\* calibrations only the resolution rows are checked; a failed call has
\* written nothing; any other call writes the camera order, the three
\* matrices as given, and the config.
C5_ShapeCheck ==
    FromMatrices =>
        LET bad == \/ Len(call.Res) # Len(call.cam_ids)
                   \/ /\ CalibrationsSupplied
                      /\ Len(call.cam_ids) # Cardinality(DOMAIN call.cam_calibrations)
        IN /\ bad <=> call.result = "AssertionError:shape"
           /\ ~bad <=> call.result = "ok"
           /\ bad => (files = {} /\ dir = EmptyDir)
           /\ ~bad =>
                 /\ files = Range(INPUT)
                 /\ dir.order = [k \in 1..Len(call.cam_ids) |-> strip(call.cam_ids[k])]
                 /\ dir.res = call.Res
                 /\ dir.idmat = call.IdMat
                 /\ dir.points = call.points
                 /\ Len(dir.cfg) = 1

\* what the code does instead: the calibrations are counted whenever
\* cam_calibrations is not None, the empty dictionary of the default included
ShapeCheckOnNotNone ==
    FromMatrices =>
        LET bad == \/ Len(call.Res) # Len(call.cam_ids)
                   \/ /\ call.has_calibrations
                      /\ Len(call.cam_ids) # Cardinality(DOMAIN call.cam_calibrations)
        IN /\ bad <=> call.result = "AssertionError:shape"
           /\ ~bad <=> call.result = "ok"
           /\ bad => (files = {} /\ dir = EmptyDir)
           /\ ~bad => (files = Range(INPUT) /\ Len(dir.cfg) = 1)

\* C6: after a successful create_from_cams the camera order, Res.dat and
\* IdMat.dat have one row for each remaining camera and points.dat one block
\* of three rows, and at every position the camera id, the resolution row,
\* the visibility row and the point block are those of one camera.
C6_RowsAgree ==
    (FromCams /\ call.result = "ok") =>
        LET n == Len(Remaining)
        IN /\ Len(dir.order) = n
           /\ Len(dir.res) = n
           /\ Len(dir.idmat) = n
           /\ Len(dir.points) = 3 * n
           /\ \A k \in 1..n :
                 LET cam == Remaining[k]
                     points == call.cam_points[cam]
                 IN /\ dir.order[k] = strip(cam)
                    /\ dir.res[k] = call.cam_resolutions[cam]
                    /\ dir.idmat[k] = found(points)
                    /\ dir.points[3 * k - 2] = [i \in 1..Len(points) |-> points[i][1]]
                    /\ dir.points[3 * k - 1] = [i \in 1..Len(points) |-> points[i][2]]
                    /\ dir.points[3 * k] = [i \in 1..Len(points) |-> One]

\* one camera was dropped, and the two that remain have different
\* observations and a camera id with a leading separator
C6_Witness ==
    /\ FromCams
    /\ call.result = "ok"
    /\ Len(call.supplied) = 3
    /\ Len(call.dropped) = 1
    /\ Len(dir.res) = 2
    /\ dir.idmat[1] # dir.idmat[2]
    /\ \E k \in 1..2 : call.cam_ids[k] # dir.order[k]

IsUnsupported(url) == url.ext \notin {"yaml", "rad"}

\* C8 as stated: a calibration source with an extension other than yaml and
\* rad makes the call fail with the unsupported-format error, with no radial
\* file written for that camera and no config written.
C8_AsStated ==
    FromCams =>
        \A cam \in DOMAIN call.cam_calibrations :
            (cam \in Range(call.supplied) /\ IsUnsupported(call.cam_calibrations[cam])) =>
                /\ call.result = "Exception:format"
                /\ ~\E r \in dir.rads : r.src = call.cam_calibrations[cam]
                /\ dir.cfg = <<>>

\* the position of the first remaining camera whose calibration source is
\* not an existing file or has an unsupported extension, or 0
FirstBadSource ==
    LET bad == {k \in 1..Len(call.cam_ids) :
                   /\ call.cam_ids[k] \in DOMAIN call.cam_calibrations
                   /\ \/ ~call.cam_calibrations[call.cam_ids[k]].isfile
                      \/ IsUnsupported(call.cam_calibrations[call.cam_ids[k]])}
    IN IF bad = {} THEN 0 ELSE CHOOSE k \in bad : \A j \in bad : k <= j

TwoColumns == \A k \in 1..Len(call.cam_ids) : ncols(call.cam_points[call.cam_ids[k]]) = 2

\* C8 amended: with two-column observations, the call fails exactly when a
\* camera that remains in the camera order has a calibration source that is
\* not an existing file or ends in neither yaml nor rad; it fails at the first
\* such camera, with the unsupported-format error when that source is an
\* existing file and with an assertion failure when it is not; no radial file
\* is written for that camera or a later one, and the config is not written.
\* The source of a dropped camera is never looked at.
C8_UnsupportedSourceOfRemainingCamera ==
    (FromCams /\ TwoColumns) =>
        LET k0 == FirstBadSource
        IN /\ k0 = 0 <=> call.result = "ok"
           /\ k0 # 0 =>
                 LET url == call.cam_calibrations[call.cam_ids[k0]]
                 IN /\ call.result = IF url.isfile THEN "Exception:format"
                                     ELSE "AssertionError:isfile"
                    /\ \A r \in dir.rads : r.name.idx < k0 /\ r.src # url
                    /\ dir.cfg = <<>>
                    /\ "multicamselfcal.cfg" \notin files

\* the call failed on an unsupported extension after it wrote the radial
\* file of an earlier camera, and a dropped camera had a source that was
\* never looked at
C8_Witness ==
    /\ FromCams
    /\ call.result = "Exception:format"
    /\ dir.rads # {}
    /\ \E cam \in Range(call.dropped) :
          /\ cam \in DOMAIN call.cam_calibrations
          /\ ~call.cam_calibrations[cam].isfile

\* C9: the config holds the number of cameras passed to _write_cfg (in
\* create_from_cams the remaining cameras) as Num-Cameras, and as
\* Num-Cameras-Fill that number when num_cameras_fill is negative or larger
\* than it, and num_cameras_fill otherwise: a value from 0 to Num-Cameras.
C9_FillClamped ==
    ((FromCams \/ FromMatrices) /\ call.result = "ok") =>
        LET n == IF FromCams THEN Len(Remaining) ELSE Len(call.cam_ids)
            fill == call.num_cameras_fill
            cfg == dir.cfg[1]
        IN /\ Len(dir.cfg) = 1
           /\ cfg.num_cameras = n
           /\ (fill < 0 \/ fill > n) => cfg.num_cameras_fill = n
           /\ (fill >= 0 /\ fill <= n) => cfg.num_cameras_fill = fill
           /\ cfg.num_cameras_fill >= 0
           /\ cfg.num_cameras_fill <= cfg.num_cameras

\* a fill count that fits the supplied cameras exceeds the remaining ones
C9_Witness ==
    /\ FromCams
    /\ call.result = "ok"
    /\ Len(call.supplied) = 3
    /\ call.num_cameras_fill = 3
    /\ Len(call.dropped) = 1
    /\ dir.cfg[1].num_cameras_fill = 2

\* C10: every radial file written by create_from_cams belongs to a camera
\* with a calibration source and carries that camera's position, counted
\* from 1, in the written camera order; a successful call writes one for
\* every such camera; get_camera_names_map gives every camera id read back
\* from camera_order.txt the position of its line, counted from 1.
C10_RadialIndexIsWrittenPosition ==
    /\ FromCams =>
          /\ \A r \in dir.rads :
                /\ r.name.idx \in 1..Len(dir.order)
                /\ Remaining[r.name.idx] \in DOMAIN call.cam_calibrations
                /\ r.src = call.cam_calibrations[Remaining[r.name.idx]]
          /\ call.result = "ok" =>
                \A k \in 1..Len(Remaining) :
                    Remaining[k] \in DOMAIN call.cam_calibrations =>
                        \E r \in dir.rads : r.name.idx = k
    /\ names.status = "ok" =>
          /\ DOMAIN names.map = Range(dir.order)
          /\ \A k \in 1..Len(dir.order) : names.map[dir.order[k]].idx = k

\* the first camera was dropped, the file of a later camera carries its
\* shifted position, and the names were read back
C10_Witness ==
    /\ FromCams
    /\ call.result = "ok"
    /\ names.status = "ok"
    /\ Len(call.supplied) = 3
    /\ call.dropped = <<call.supplied[1]>>
    /\ call.supplied[1] \in DOMAIN call.cam_calibrations
    /\ \E r \in dir.rads :
          /\ r.name.idx = 2
          /\ r.src = call.cam_calibrations[call.supplied[3]]
          /\ names.map[strip(call.supplied[3])].idx = 2
    /\ ~\E r \in dir.rads : r.name.idx = 1

====
